---------------------------- MODULE Spec2Model ----------------------------
(***************************************************************************)
(* A model of the data-bundle app: the Send screen (form validation, order *)
(* submission, transaction log append), the History screen (load, clear)   *)
(* and the Settings screen (credential save, clear, clear-all), all over   *)
(* one AsyncStorage key-value store.                                       *)
(*                                                                         *)
(* Strings whose characters the code inspects (phone, webhook URL, API     *)
(* key) are sequences of one-character strings.  A stored value is a       *)
(* record: NoItem (getItem yields null), a plain text, or the text that    *)
(* JSON.stringify produced for a value.                                    *)
(***************************************************************************)
EXTENDS Integers, Sequences, FiniteSets, TLC

(***************************************************************************)
(* Bounds of the model.                                                    *)
(***************************************************************************)
MaxCalls == 2
MaxTime == 1
MaxAppends == 52
MaxSends == 1

(***************************************************************************)
(* Program constants.                                                      *)
(***************************************************************************)
MAX_TRANSACTIONS == 50
PHONE_DIGITS == 10

BUNDLE_SIZES ==
  [MTN |-> <<1024, 2048, 3072, 4096, 5120, 6144, 8192, 10240, 15360, 20480,
             25600, 30720, 40960, 51200>>,
   Telecel |-> <<5000, 10000, 15000, 20000, 25000, 30000, 35000, 40000,
                 45000, 50000>>]

TableStatuses == {400, 401, 403, 409, 422, 402, 429, 500}

ERROR_MESSAGES(status) ==
  CASE status = 400 -> "Missing required fields or invalid input"
    [] status = 401 -> "API key is missing"
    [] status = 403 -> "Invalid API key"
    [] status = 409 -> "Duplicate reference - transaction already exists"
    [] status = 422 -> "Invalid bundle size or unsupported network"
    [] status = 402 -> "Insufficient wallet balance"
    [] status = 429 -> "Rate limit exceeded - please wait before trying again"
    [] status = 500 -> "System error - please try again later"
    [] OTHER -> ""

MsgNoApiKey == "Please set your API key in Settings first"
MsgNoPhone == "Please enter a phone number"
MsgBadPhone == "Please enter a valid 10-digit phone number"
MsgBadWebhook == "Webhook URL must start with https://"
MsgNetwork == "Network error. Please check your connection and try again."
MsgUnknown == "Unknown error occurred"
MsgSent == "Data bundle sent successfully!"

(***************************************************************************)
(* Strings.                                                                *)
(***************************************************************************)
Digits == {"0", "1", "2", "3", "4", "5", "6", "7", "8", "9"}

\* What the regular expression class \s and String.prototype.trim strip.
Whitespace == {" ", "\t", "\n"}

\* s.replace(/\s/g, '')
StripWhitespace(s) == SelectSeq(s, LAMBDA c : c \notin Whitespace)

RECURSIVE TrimStart(_)
TrimStart(s) ==
  IF s # <<>> /\ Head(s) \in Whitespace THEN TrimStart(Tail(s)) ELSE s

RECURSIVE TrimEnd(_)
TrimEnd(s) ==
  IF s # <<>> /\ s[Len(s)] \in Whitespace
  THEN TrimEnd(SubSeq(s, 1, Len(s) - 1))
  ELSE s

\* s.trim()
Trim(s) == TrimEnd(TrimStart(s))

\* s.startsWith(p)
StartsWith(s, p) == Len(s) >= Len(p) /\ SubSeq(s, 1, Len(p)) = p

\* /^\d{10}$/.test(s)
IsPhoneNumber(s) == Len(s) = PHONE_DIGITS /\ \A i \in 1..Len(s) : s[i] \in Digits

Https == <<"h", "t", "t", "p", "s", ":", "/", "/">>

\* network.toLowerCase()
ToLowerCase(n) == IF n = "MTN" THEN "mtn" ELSE "telecel"

(***************************************************************************)
(* Stored values and JSON.                                                 *)
(***************************************************************************)
NoItem == [kind |-> "null", text |-> <<>>, json |-> <<>>]
Text(s) == [kind |-> "text", text |-> s, json |-> <<>>]

\* JSON.stringify of an array of entries.
JSONstringify(list) == [kind |-> "json", text |-> <<"[">>, json |-> list]

\* A string is truthy unless it is null or empty.
Truthy(v) == v.kind = "json" \/ (v.kind = "text" /\ v.text # <<>>)

\* JSON.parse(v) returns normally only for a text that JSON.stringify wrote;
\* for any other non-empty text it throws a SyntaxError.
Parses(v) == v.kind = "json"
JSONparse(v) == v.json

\* An unshift that inserts the entry twice.
UnshiftTwice(list, x) == <<x, x>> \o list

\* list.unshift(x)
Unshift(list, x) == <<x>> \o list

\* A slice that keeps one entry too many.
SliceOffByOne(list, n) ==
  SubSeq(list, 1, IF Len(list) < n + 1 THEN Len(list) ELSE n + 1)

\* list.slice(0, 50)
Slice(list, n) == SubSeq(list, 1, IF Len(list) < n THEN Len(list) ELSE n)

VARIABLES
  now,             \* the wall clock, Date.now()
  storage,         \* AsyncStorage: key -> stored value
  orders,          \* the order service: orders accepted so far
  network, selectedSize, phone, webhookUrl, loading, apiKey,   \* Send state
  disabled,        \* the send button's disabled prop as last rendered
  alert,           \* the last Alert.alert shown
  calls,           \* the invocations of sendDataBundle, in order of start
  requests,        \* the outbound POST bodies, in order of issue
  transactions, refreshing,   \* History state
  settingsApiKey, tempApiKey,   \* Settings state
  mounting         \* the screens whose mount effect has not run yet

vars == <<now, storage, orders, network, selectedSize, phone, webhookUrl,
          loading, apiKey, disabled, alert, calls, requests, transactions,
          refreshing, settingsApiKey, tempApiKey, mounting>>

sendForm == <<network, selectedSize, phone, webhookUrl>>
historyState == <<transactions, refreshing>>
settingsState == <<settingsApiKey, tempApiKey>>

NoAlert == [title |-> "", message |-> "", order_id |-> 0]
ErrorAlert(m) == [title |-> "Error", message |-> m, order_id |-> 0]
SuccessAlert(m, id) == [title |-> "Success!", message |-> m, order_id |-> id]

(***************************************************************************)
(* The order service's responses.  A response is the settled fetch: it     *)
(* either rejected (resolved = FALSE) or carries an HTTP status and a      *)
(* body; response.json() rejects on an unparsable body and yields null on  *)
(* the JSON text null.                                                     *)
(***************************************************************************)
NoData == [kind |-> "object", status |-> "", hasMessage |-> FALSE,
           message |-> "", order_id |-> 0]
ObjectBody(st, has, m, id) ==
  [kind |-> "object", status |-> st, hasMessage |-> has, message |-> m,
   order_id |-> id]
NullBody == [NoData EXCEPT !.kind = "null"]
UnparsableBody == [NoData EXCEPT !.kind = "unparsable"]

Rejected == [resolved |-> FALSE, status |-> 0, body |-> NoData]
Response(st, b) == [resolved |-> TRUE, status |-> st, body |-> b]

\* response.ok
Ok(status) == status >= 200 /\ status <= 299

\* ERROR_MESSAGES[response.status] || data.message || 'Unknown error occurred'
\* evaluated on a body that is an object.
ErrorMessage(status, data) ==
  IF status \in TableStatuses THEN ERROR_MESSAGES(status)
  ELSE IF data.hasMessage /\ data.message # "" THEN data.message
  ELSE MsgUnknown

\* What lines 112-141 make of a settled fetch: "success" (the branch that
\* saves the transaction), "error" with the message alerted, or "network"
\* (the catch block).  Reading a property of a null body throws a TypeError.
Outcome(r) ==
  IF ~r.resolved \/ r.body.kind = "unparsable"
  THEN [kind |-> "network", message |-> MsgNetwork]
  ELSE IF Ok(r.status) /\ r.body.kind = "null"
  THEN [kind |-> "network", message |-> MsgNetwork]
  ELSE IF Ok(r.status) /\ r.body.status = "success"
  THEN [kind |-> "success", message |-> MsgSent]
  ELSE IF r.status \notin TableStatuses /\ r.body.kind = "null"
  THEN [kind |-> "network", message |-> MsgNetwork]
  ELSE [kind |-> "error", message |-> ErrorMessage(r.status, r.body)]

(***************************************************************************)
(* Send screen.                                                            *)
(***************************************************************************)
\* A validateForm that tests the phone without stripping its whitespace.
ValidateFormUnstripped(key, ph, url) ==
  IF Trim(key) = <<>> THEN MsgNoApiKey
  ELSE IF Trim(ph) = <<>> THEN MsgNoPhone
  ELSE IF ~IsPhoneNumber(ph) THEN MsgBadPhone
  ELSE IF url # <<>> /\ ~StartsWith(url, Https) THEN MsgBadWebhook
  ELSE ""

\* validateForm: "" when the form passes, else the message alerted.
ValidateForm(key, ph, url) ==
  IF Trim(key) = <<>> THEN MsgNoApiKey
  ELSE IF Trim(ph) = <<>> THEN MsgNoPhone
  ELSE IF ~IsPhoneNumber(StripWhitespace(ph)) THEN MsgBadPhone
  ELSE IF url # <<>> /\ ~StartsWith(url, Https) THEN MsgBadWebhook
  ELSE ""

\* The body of the POST; webhook_url is spread in only when non-empty.
RequestBody ==
  [api_key |-> apiKey, phone |-> StripWhitespace(phone),
   size_mb |-> selectedSize, network |-> ToLowerCase(network),
   reference |-> [prefix |-> "TXN_", n |-> now],
   hasWebhook |-> webhookUrl # <<>>, webhook_url |-> webhookUrl]

\* { ...data, timestamp: new Date().toISOString() }; the ISO text keeps the
\* clock's millisecond, so the entry carries the clock value.
NewTransaction(data, t) ==
  [order_id |-> data.order_id, status |-> data.status,
   message |-> data.message, timestamp |-> t]

NewCall == [pc |-> "fetch", start |-> now, data |-> NoData, item |-> NoItem]

RemoveAt(s, i) == SubSeq(s, 1, i - 1) \o SubSeq(s, i + 1, Len(s))

Tick ==
  /\ now < MaxTime
  /\ now' = now + 1
  /\ UNCHANGED <<storage, orders, sendForm, loading, apiKey, disabled, alert,
                 calls, requests, historyState, settingsState, mounting>>

\* The Send screen's mount effect.
LoadApiKey(fails) ==
  /\ "send" \in mounting
  /\ mounting' = mounting \ {"send"}
  /\ apiKey' = IF ~fails /\ Truthy(storage.api_key)
               THEN storage.api_key.text ELSE apiKey
  /\ UNCHANGED <<now, storage, orders, sendForm, loading, disabled, alert,
                 calls, requests, historyState, settingsState>>

SetPhone(p) ==
  /\ phone' = p
  /\ UNCHANGED <<now, storage, orders, network, selectedSize, webhookUrl,
                 loading, apiKey, disabled, alert, calls, requests,
                 historyState, settingsState, mounting>>

SetWebhookUrl(u) ==
  /\ webhookUrl' = u
  /\ UNCHANGED <<now, storage, orders, network, selectedSize, phone,
                 loading, apiKey, disabled, alert, calls, requests,
                 historyState, settingsState, mounting>>

Networks == {"MTN", "Telecel"}

\* The sizes of the bundle size buttons rendered for network n.
Offered(n) == {BUNDLE_SIZES[n][k] : k \in 1..Len(BUNDLE_SIZES[n])}

\* A handleNetworkChange that leaves the selected size alone.
HandleNetworkChangeKeepsSize(selectedNetwork) ==
  /\ network' = selectedNetwork
  /\ UNCHANGED <<now, storage, orders, selectedSize, phone, webhookUrl,
                 loading, apiKey, disabled, alert, calls, requests,
                 historyState, settingsState, mounting>>

\* handleNetworkChange
HandleNetworkChange(selectedNetwork) ==
  /\ network' = selectedNetwork
  /\ selectedSize' = BUNDLE_SIZES[selectedNetwork][1]
  /\ UNCHANGED <<now, storage, orders, phone, webhookUrl, loading, apiKey,
                 disabled, alert, calls, requests, historyState,
                 settingsState, mounting>>

\* A press of one of the bundle size buttons, which are rendered from
\* BUNDLE_SIZES[network].
SetSelectedSize(size) ==
  /\ size \in Offered(network)
  /\ selectedSize' = size
  /\ UNCHANGED <<now, storage, orders, network, phone, webhookUrl, loading,
                 apiKey, disabled, alert, calls, requests, historyState,
                 settingsState, mounting>>

\* React commits the render that carries the loading flag to the button.
Render ==
  /\ disabled # loading
  /\ disabled' = loading
  /\ UNCHANGED <<now, storage, orders, sendForm, loading, apiKey, alert,
                 calls, requests, historyState, settingsState, mounting>>

\* sendDataBundle up to its first await (lines 95-118).
SendDataBundle(maxCalls) ==
  LET reason == ValidateForm(apiKey, phone, webhookUrl) IN
  IF reason # ""
  THEN /\ alert' = ErrorAlert(reason)
       /\ UNCHANGED <<now, storage, orders, sendForm, loading, apiKey,
                      disabled, calls, requests, historyState, settingsState,
                      mounting>>
  ELSE /\ Len(requests) < maxCalls
       /\ loading' = TRUE
       /\ requests' = Append(requests, RequestBody)
       /\ calls' = Append(calls, NewCall)
       /\ UNCHANGED <<now, storage, orders, sendForm, apiKey, disabled,
                      alert, historyState, settingsState, mounting>>

\* A press of the send button, which the rendered disabled prop gates.
PressSend(maxCalls) == ~disabled /\ SendDataBundle(maxCalls)

\* A success path that returns without clearing the loading flag.
FinishSuccessKeepsLoading(i) ==
  /\ alert' = SuccessAlert(MsgSent, calls[i].data.order_id)
  /\ phone' = <<>>
  /\ webhookUrl' = <<>>
  /\ loading' = loading
  /\ calls' = RemoveAt(calls, i)

\* The rest of sendDataBundle after saveTransaction returned (lines 126-134)
\* and the finally block.
FinishSuccess(i) ==
  /\ alert' = SuccessAlert(MsgSent, calls[i].data.order_id)
  /\ phone' = <<>>
  /\ webhookUrl' = <<>>
  /\ loading' = FALSE
  /\ calls' = RemoveAt(calls, i)

\* fetch and response.json() settle (lines 112-122, 135-144).
FetchSettle(i, r) ==
  LET o == Outcome(r) IN
  /\ calls[i].pc = "fetch"
  /\ IF o.kind = "success"
     THEN /\ calls' = [calls EXCEPT ![i].pc = "getItem", ![i].data = r.body]
          /\ orders' = r.body.order_id
          /\ UNCHANGED <<alert, loading>>
     ELSE /\ alert' = ErrorAlert(o.message)
          /\ loading' = FALSE
          /\ calls' = RemoveAt(calls, i)
          /\ UNCHANGED orders
  /\ UNCHANGED <<now, storage, sendForm, apiKey, disabled, requests,
                 historyState, settingsState, mounting>>

\* saveTransaction: getItem settles (lines 149-156).
SaveGetItem(i, fails) ==
  LET v == storage.transactions
      list == IF Truthy(v) THEN JSONparse(v) ELSE <<>>
      newTransaction == NewTransaction(calls[i].data, now)
      unshifted == Unshift(list, newTransaction)
  IN
  /\ calls[i].pc = "getItem"
  /\ IF fails \/ (Truthy(v) /\ ~Parses(v))
     THEN /\ FinishSuccess(i)
          /\ UNCHANGED <<network, selectedSize>>
     ELSE /\ calls' = [calls EXCEPT
                         ![i].pc = "setItem",
                         ![i].item = JSONstringify(Slice(unshifted, MAX_TRANSACTIONS))]
          /\ UNCHANGED <<sendForm, loading, alert>>
  /\ UNCHANGED <<now, storage, orders, apiKey, disabled, requests,
                 historyState, settingsState, mounting>>

\* A setItem whose failure escapes saveTransaction and lands in the catch
\* block of sendDataBundle.
SaveSetItemUncaught(i, fails) ==
  /\ calls[i].pc = "setItem"
  /\ IF fails
     THEN /\ alert' = ErrorAlert(MsgNetwork)
          /\ loading' = FALSE
          /\ calls' = RemoveAt(calls, i)
          /\ UNCHANGED <<storage, phone, webhookUrl>>
     ELSE /\ storage' = [storage EXCEPT !.transactions = calls[i].item]
          /\ FinishSuccess(i)
  /\ UNCHANGED <<now, orders, network, selectedSize, apiKey, disabled,
                 requests, historyState, settingsState, mounting>>

\* saveTransaction: setItem settles, and sendDataBundle runs to its end.
SaveSetItem(i, fails) ==
  /\ calls[i].pc = "setItem"
  /\ storage' = IF fails THEN storage
                ELSE [storage EXCEPT !.transactions = calls[i].item]
  /\ FinishSuccess(i)
  /\ UNCHANGED <<now, orders, network, selectedSize, apiKey, disabled,
                 requests, historyState, settingsState, mounting>>

(***************************************************************************)
(* History screen.                                                         *)
(***************************************************************************)
\* What loadTransactions leaves in the transactions state: the parsed log
\* when one is stored, else what was there before.
LoadTransactions(fails) ==
  LET savedTransactions == storage.transactions IN
  IF ~fails /\ Truthy(savedTransactions) /\ Parses(savedTransactions)
  THEN JSONparse(savedTransactions)
  ELSE transactions

\* The History screen's mount effect.
HistoryMount(fails) ==
  /\ "history" \in mounting
  /\ mounting' = mounting \ {"history"}
  /\ transactions' = LoadTransactions(fails)
  /\ UNCHANGED <<now, storage, orders, sendForm, loading, apiKey, disabled,
                 alert, calls, requests, refreshing, settingsState>>

\* onRefresh up to its await.
OnRefreshStart ==
  /\ "history" \notin mounting
  /\ ~refreshing
  /\ refreshing' = TRUE
  /\ UNCHANGED <<now, storage, orders, sendForm, loading, apiKey, disabled,
                 alert, calls, requests, transactions, settingsState,
                 mounting>>

\* onRefresh once loadTransactions returned.
OnRefreshSettle(fails) ==
  /\ refreshing
  /\ transactions' = LoadTransactions(fails)
  /\ refreshing' = FALSE
  /\ UNCHANGED <<now, storage, orders, sendForm, loading, apiKey, disabled,
                 alert, calls, requests, settingsState, mounting>>

\* clearHistory; its button is rendered only while entries are displayed.
ClearHistory(fails) ==
  /\ Len(transactions) > 0
  /\ IF fails
     THEN UNCHANGED <<storage, transactions>>
     ELSE /\ storage' = [storage EXCEPT !.transactions = NoItem]
          /\ transactions' = <<>>
  /\ UNCHANGED <<now, orders, sendForm, loading, apiKey, disabled, alert,
                 calls, requests, refreshing, settingsState, mounting>>

(***************************************************************************)
(* Settings screen.                                                        *)
(***************************************************************************)
InfoAlert(m) == [title |-> "Success", message |-> m, order_id |-> 0]

\* The Settings screen's mount effect.
LoadSettingsApiKey(fails) ==
  LET key == storage.api_key IN
  /\ "settings" \in mounting
  /\ mounting' = mounting \ {"settings"}
  /\ IF ~fails /\ Truthy(key)
     THEN settingsApiKey' = key.text /\ tempApiKey' = key.text
     ELSE UNCHANGED settingsState
  /\ UNCHANGED <<now, storage, orders, sendForm, loading, apiKey, disabled,
                 alert, calls, requests, historyState>>

SetTempApiKey(k) ==
  /\ tempApiKey' = k
  /\ UNCHANGED <<now, storage, orders, sendForm, loading, apiKey, disabled,
                 alert, calls, requests, historyState, settingsApiKey,
                 mounting>>

\* A saveApiKey that stores the value as typed.
SaveApiKeyUntrimmed(fails) ==
  /\ IF Trim(tempApiKey) = <<>>
     THEN /\ alert' = ErrorAlert("Please enter an API key")
          /\ UNCHANGED <<storage, settingsApiKey>>
     ELSE IF fails
     THEN /\ alert' = ErrorAlert("Failed to save API key")
          /\ UNCHANGED <<storage, settingsApiKey>>
     ELSE /\ storage' = [storage EXCEPT !.api_key = Text(tempApiKey)]
          /\ settingsApiKey' = tempApiKey
          /\ alert' = InfoAlert("API key saved successfully")
  /\ UNCHANGED <<now, orders, sendForm, loading, apiKey, disabled, calls,
                 requests, historyState, tempApiKey, mounting>>

\* saveApiKey
SaveApiKey(fails) ==
  /\ IF Trim(tempApiKey) = <<>>
     THEN /\ alert' = ErrorAlert("Please enter an API key")
          /\ UNCHANGED <<storage, settingsApiKey>>
     ELSE IF fails
     THEN /\ alert' = ErrorAlert("Failed to save API key")
          /\ UNCHANGED <<storage, settingsApiKey>>
     ELSE /\ storage' = [storage EXCEPT !.api_key = Text(Trim(tempApiKey))]
          /\ settingsApiKey' = Trim(tempApiKey)
          /\ alert' = InfoAlert("API key saved successfully")
  /\ UNCHANGED <<now, orders, sendForm, loading, apiKey, disabled, calls,
                 requests, historyState, tempApiKey, mounting>>

\* A clearApiKey that removes every key.
ClearApiKeyAndLog(fails) ==
  /\ settingsApiKey # <<>>
  /\ IF fails
     THEN /\ alert' = ErrorAlert("Failed to clear API key")
          /\ UNCHANGED <<storage, settingsState>>
     ELSE /\ storage' = [api_key |-> NoItem, transactions |-> NoItem]
          /\ settingsApiKey' = <<>>
          /\ tempApiKey' = <<>>
          /\ alert' = InfoAlert("API key cleared")
  /\ UNCHANGED <<now, orders, sendForm, loading, apiKey, disabled, calls,
                 requests, historyState, mounting>>

\* clearApiKey with the dialog's Clear pressed; the trash button is rendered
\* only while the Settings state holds a key.
ClearApiKey(fails) ==
  /\ settingsApiKey # <<>>
  /\ IF fails
     THEN /\ alert' = ErrorAlert("Failed to clear API key")
          /\ UNCHANGED <<storage, settingsState>>
     ELSE /\ storage' = [storage EXCEPT !.api_key = NoItem]
          /\ settingsApiKey' = <<>>
          /\ tempApiKey' = <<>>
          /\ alert' = InfoAlert("API key cleared")
  /\ UNCHANGED <<now, orders, sendForm, loading, apiKey, disabled, calls,
                 requests, historyState, mounting>>

StorageKeys == {"api_key", "transactions"}

\* clearAllData with the dialog's Clear All pressed.  multiRemove removes
\* the keys in `removed`; it resolves only when it removed them all.
ClearAllData(removed) ==
  /\ storage' = [k \in StorageKeys |->
                   IF k \in removed THEN NoItem ELSE storage[k]]
  /\ IF removed = StorageKeys
     THEN /\ settingsApiKey' = <<>>
          /\ tempApiKey' = <<>>
          /\ alert' = InfoAlert("All data cleared")
     ELSE /\ alert' = ErrorAlert("Failed to clear data")
          /\ UNCHANGED settingsState
  /\ UNCHANGED <<now, orders, sendForm, loading, apiKey, disabled, calls,
                 requests, historyState, mounting>>

(***************************************************************************)
(* Initial states.                                                         *)
(***************************************************************************)
StoredEntry(id) ==
  [order_id |-> id, status |-> "success", message |-> "Order placed",
   timestamp |-> 0]

\* A log an earlier session left: orders n .. 1, newest first.
StoredLog(n) == [i \in 1..n |-> StoredEntry(n + 1 - i)]

K1 == <<"k", "1">>
K2 == <<"k", "2">>

\* The state after the screens are constructed, over a store holding
\* api_key `key` and transactions `log`, with `n` orders accepted so far,
\* and with `ph` and `url` typed into the form.
InitTyped(key, log, n, ph, url) ==
  /\ now = 0
  /\ storage = [api_key |-> key, transactions |-> log]
  /\ orders = n
  /\ network = "MTN"
  /\ selectedSize = 1024
  /\ phone = ph
  /\ webhookUrl = url
  /\ loading = FALSE
  /\ apiKey = <<>>
  /\ disabled = FALSE
  /\ alert = NoAlert
  /\ calls = <<>>
  /\ requests = <<>>
  /\ transactions = <<>>
  /\ refreshing = FALSE
  /\ settingsApiKey = <<>>
  /\ tempApiKey = <<>>
  /\ mounting = {"send", "history", "settings"}

InitWith(key, log, n) == InitTyped(key, log, n, <<>>, <<>>)

(***************************************************************************)
(* Inputs.                                                                 *)
(***************************************************************************)
Phone10 == <<"0", "5", "4", "3", "4", "8", "2", "2", "8", "0">>
HttpsX == Https \o <<"x">>

SuccessBody(id) == ObjectBody("success", TRUE, "Order placed", id)

AppPhones == {Phone10}
AppWebhooks == {HttpsX}
AppKeys == {K1, <<" ">> \o K2}
AppResponses(id) == {Rejected, Response(200, SuccessBody(id))}

StoredList ==
  IF Truthy(storage.transactions) /\ Parses(storage.transactions)
  THEN JSONparse(storage.transactions) ELSE <<>>

(***************************************************************************)
(* Submission: the Send screen's handlers, free to interleave at their     *)
(* awaits, over a store whose reads and writes may fail.                   *)
(***************************************************************************)
InitSubmit == InitWith(Text(K1), JSONstringify(StoredLog(1)), 1)

NextSubmit ==
  \/ Tick
  \/ LoadApiKey(FALSE)
  \/ \E p \in AppPhones : SetPhone(p)
  \/ \E u \in AppWebhooks : SetWebhookUrl(u)
  \/ Render
  \/ PressSend(MaxCalls)
  \/ \E i \in 1..Len(calls), r \in AppResponses(orders + 1) : FetchSettle(i, r)
  \/ \E i \in 1..Len(calls), f \in BOOLEAN : SaveGetItem(i, f)
  \/ \E i \in 1..Len(calls), f \in BOOLEAN : SaveSetItem(i, f)

SpecSubmit == InitSubmit /\ [][NextSubmit]_vars

(***************************************************************************)
(* The transaction log: one submission after another, each pressed once    *)
(* the previous render is committed, every response a success and every    *)
(* storage call succeeding, from a stored log of 0, 1, 49 or 50 entries.   *)
(***************************************************************************)
\* A press that arrives after React committed the last state update.
PressSendRendered(maxCalls) == disabled = loading /\ PressSend(maxCalls)

InitLogLengths == {0, 1, MAX_TRANSACTIONS - 1, MAX_TRANSACTIONS}

InitLog ==
  \E n \in InitLogLengths :
    InitWith(Text(K1), IF n = 0 THEN NoItem ELSE JSONstringify(StoredLog(n)), n)

NextLog ==
  \/ LoadApiKey(FALSE)
  \/ \E p \in AppPhones : SetPhone(p)
  \/ Render
  \/ PressSendRendered(MaxAppends)
  \/ \E i \in 1..Len(calls) : FetchSettle(i, Response(200, SuccessBody(orders + 1)))
  \/ \E i \in 1..Len(calls) : SaveGetItem(i, FALSE)
  \/ \E i \in 1..Len(calls) : SaveSetItem(i, FALSE)

SpecLog == InitLog /\ [][NextLog]_vars

(***************************************************************************)
(* The three screens over the shared store: Settings and History change    *)
(* the stored credential and log while the Send screen stays mounted.      *)
(***************************************************************************)
InitScreens ==
  \E key \in {NoItem, Text(K1)}, n \in {0, 1} :
    InitWith(key, IF n = 0 THEN NoItem ELSE JSONstringify(StoredLog(n)), n)

NextScreens ==
  \/ LoadApiKey(FALSE)
  \/ \E p \in AppPhones : SetPhone(p)
  \/ Render
  \/ PressSendRendered(MaxSends)
  \/ \E i \in 1..Len(calls), r \in AppResponses(orders + 1) : FetchSettle(i, r)
  \/ \E i \in 1..Len(calls) : SaveGetItem(i, FALSE)
  \/ \E i \in 1..Len(calls) : SaveSetItem(i, FALSE)
  \/ \E f \in BOOLEAN : HistoryMount(f)
  \/ OnRefreshStart
  \/ \E f \in BOOLEAN : OnRefreshSettle(f)
  \/ \E f \in BOOLEAN : ClearHistory(f)
  \/ \E f \in BOOLEAN : LoadSettingsApiKey(f)
  \/ \E k \in AppKeys : SetTempApiKey(k)
  \/ \E f \in BOOLEAN : SaveApiKey(f)
  \/ \E f \in BOOLEAN : ClearApiKey(f)
  \/ \E removed \in SUBSET StorageKeys : ClearAllData(removed)

SpecScreens == InitScreens /\ [][NextScreens]_vars

(***************************************************************************)
(* The stored log as an earlier session, or anything else that writes the  *)
(* key, may have left it: absent, empty, not JSON, or a serialized log.    *)
(***************************************************************************)
InitStore ==
  \E log \in {NoItem, Text(<<>>), Text(<<"{">>), JSONstringify(StoredLog(1))} :
    InitWith(Text(K1), log, IF Parses(log) THEN 1 ELSE 0)

NextStore ==
  \/ Tick
  \/ LoadApiKey(FALSE)
  \/ \E p \in AppPhones : SetPhone(p)
  \/ Render
  \/ PressSendRendered(MaxCalls)
  \/ \E i \in 1..Len(calls) : FetchSettle(i, Response(200, SuccessBody(orders + 1)))
  \/ \E i \in 1..Len(calls) : SaveGetItem(i, FALSE)
  \/ \E i \in 1..Len(calls) : SaveSetItem(i, FALSE)

SpecStore == InitStore /\ [][NextStore]_vars

(***************************************************************************)
(* The responses the order service can give to one submission.             *)
(***************************************************************************)
Statuses == {200, 201, 400, 401, 402, 403, 404, 409, 422, 429, 500, 503}

Bodies(id) ==
  {UnparsableBody, NullBody}
    \cup {ObjectBody(st, m[1], m[2], id) :
            st \in {"success", "error", ""},
            m \in {<<FALSE, "">>, <<TRUE, "">>, <<TRUE, "Server says no">>}}

AllResponses(id) ==
  {Rejected} \cup {Response(st, b) : st \in Statuses, b \in Bodies(id)}

InitResponse == InitWith(Text(K1), NoItem, 0)

NextResponse ==
  \/ LoadApiKey(FALSE)
  \/ \E p \in AppPhones : SetPhone(p)
  \/ Render
  \/ PressSendRendered(MaxCalls)
  \/ \E i \in 1..Len(calls), r \in AllResponses(orders + 1) : FetchSettle(i, r)
  \/ \E i \in 1..Len(calls) : SaveGetItem(i, FALSE)
  \/ \E i \in 1..Len(calls) : SaveSetItem(i, FALSE)

SpecResponse == InitResponse /\ [][NextResponse]_vars

(***************************************************************************)
(* The form validator over typed forms: a stored key, a phone and a        *)
(* webhook URL drawn from the sets below, then presses of the send button. *)
(***************************************************************************)
PhoneSpaced ==
  <<"0", "5", "4", " ", "3", "4", "8", " ", "2", "2", "8", "0">>

FormChars == {"7", " ", "x"}
FormSuffixes ==
  {<<>>} \cup {<<a>> : a \in FormChars} \cup {<<a, b>> : a, b \in FormChars}
FormPrefixes ==
  {<<>>, SubSeq(Phone10, 1, 8), SubSeq(Phone10, 1, 9),
   <<"\t">> \o SubSeq(Phone10, 1, 9)}
FormPhones ==
  {PhoneSpaced} \cup {a \o b : a \in FormPrefixes, b \in FormSuffixes}

FormWebhooks ==
  {<<>>, Https, HttpsX, <<" ">> \o HttpsX, SubSeq(Https, 1, 7), <<"x">>,
   <<"h", "t", "t", "p", ":", "/", "/", "x">>,
   <<"H", "T", "T", "P", "S", ":", "/", "/", "x">>}

FormKeys == {NoItem, Text(<<" ">>), Text(K1), Text(<<" ">> \o K2 \o <<"\n">>)}

InitForm ==
  \E key \in FormKeys, ph \in FormPhones, url \in FormWebhooks :
    InitTyped(key, NoItem, 0, ph, url)

NextForm ==
  \/ LoadApiKey(FALSE)
  \/ Render
  \/ PressSend(MaxSends)
  \/ \E i \in 1..Len(calls) : FetchSettle(i, Rejected)

SpecForm == InitForm /\ [][NextForm]_vars

(***************************************************************************)
(* The stored credential: the Settings screen's handlers over values typed *)
(* into the API key field, with storage calls that may fail.               *)
(***************************************************************************)
K2Padded == <<" ">> \o K2 \o <<"\n">>

CredentialKeys ==
  {<<>>, <<" ">>, <<" ", "\t">>, K1, K2Padded, <<"k", " ", "1">>}

InitCredential ==
  \E key \in {NoItem, Text(K1)} : InitWith(key, JSONstringify(StoredLog(1)), 1)

NextCredential ==
  \/ \E f \in BOOLEAN : LoadSettingsApiKey(f)
  \/ \E k \in CredentialKeys : SetTempApiKey(k)
  \/ \E f \in BOOLEAN : SaveApiKey(f)
  \/ \E f \in BOOLEAN : ClearApiKey(f)
  \/ \E removed \in SUBSET StorageKeys : ClearAllData(removed)

SpecCredential == InitCredential /\ [][NextCredential]_vars

(***************************************************************************)
(* The bundle selection: network changes and size selections between       *)
(* submissions.                                                            *)
(***************************************************************************)
AllSizes == UNION {Offered(n) : n \in Networks}

InitBundle == InitWith(Text(K1), NoItem, 0)

NextBundle ==
  \/ LoadApiKey(FALSE)
  \/ \E p \in AppPhones : SetPhone(p)
  \/ Render
  \/ \E n \in Networks : HandleNetworkChange(n)
  \/ \E size \in AllSizes : SetSelectedSize(size)
  \/ PressSendRendered(MaxSends)
  \/ \E i \in 1..Len(calls) : FetchSettle(i, Rejected)

SpecBundle == InitBundle /\ [][NextBundle]_vars

(***************************************************************************)
(* The loading flag: submissions, free to overlap, under every outcome of  *)
(* the HTTP call and of the storage calls.  The fetch, getItem and setItem *)
(* promises settle and React commits pending renders, hence the weak       *)
(* fairness of the settling steps and of Render.                           *)
(***************************************************************************)
LoadingResponses(id) ==
  {Rejected, Response(200, UnparsableBody),
   Response(409, ObjectBody("error", TRUE, "Server says no", 0)),
   Response(200, SuccessBody(id))}

InitLoading == InitWith(Text(K1), JSONstringify(StoredLog(1)), 1)

FetchSettles ==
  \E i \in 1..Len(calls), r \in LoadingResponses(orders + 1) : FetchSettle(i, r)
SaveGetItemSettles == \E i \in 1..Len(calls), f \in BOOLEAN : SaveGetItem(i, f)
SaveSetItemSettles == \E i \in 1..Len(calls), f \in BOOLEAN : SaveSetItem(i, f)

NextLoading ==
  \/ LoadApiKey(FALSE)
  \/ \E p \in AppPhones : SetPhone(p)
  \/ Render
  \/ PressSend(MaxCalls)
  \/ FetchSettles
  \/ SaveGetItemSettles
  \/ SaveSetItemSettles

SpecLoading ==
  /\ InitLoading
  /\ [][NextLoading]_vars
  /\ WF_vars(Render)
  /\ WF_vars(FetchSettles)
  /\ WF_vars(SaveGetItemSettles)
  /\ WF_vars(SaveSetItemSettles)

(***************************************************************************)
(* Claims.                                                                 *)
(***************************************************************************)
Min(a, b) == IF a < b THEN a ELSE b

\* The order ids of the stored log, in stored order.
LogIds == [i \in 1..Len(StoredList) |-> StoredList[i].order_id]

\* The ids of the n orders accepted so far, newest first, cut to 50.
NewestIds(n) == [i \in 1..Min(n, 50) |-> n + 1 - i]

\* C1: after any sequence of successful submissions from a stored log of at
\* most 50 entries, the stored log never holds more than 50 entries; once
\* the submissions are complete it holds the most recently appended entries
\* newest first, and exactly 50 of them after more than 50 appends.
C1_LogCapped ==
  /\ Len(StoredList) <= 50
  /\ calls = <<>> => LogIds = NewestIds(orders)
  /\ (calls = <<>> /\ Len(requests) > 50) => Len(StoredList) = 50

C1_Witness ==
  /\ calls = <<>>
  /\ Len(requests) > 50
  /\ Len(StoredList) = 50
  /\ StoredList[1].order_id = orders
  /\ StoredList[50].order_id = orders - 49

\* How many entries of a log carry order id `id`.
Appended(list, id) ==
  Cardinality({k \in 1..Len(list) : list[k].order_id = id})

\* Invocation i, having received a success response, runs to its end in
\* this step.
Ended(i) == calls[i].pc # "fetch" /\ calls' = RemoveAt(calls, i)

\* C2 as stated: every submission that receives a success response appends
\* exactly one entry to the stored log, stamped between the submission's
\* start and the current time, and leaves phone and webhook empty.
C2_ExactlyOneAppended ==
  [][\A i \in 1..Len(calls) :
       Ended(i) =>
         LET id == calls[i].data.order_id IN
         /\ Appended(StoredList, id) = 0
         /\ Appended(StoredList', id) = 1
         /\ \A k \in 1..Len(StoredList') :
              StoredList'[k].order_id = id =>
                /\ calls[i].start <= StoredList'[k].timestamp
                /\ StoredList'[k].timestamp <= now'
         /\ phone' = <<>>
         /\ webhookUrl' = <<>>]_vars

\* C2 amended: such a submission appends exactly one entry, at the head of
\* the log and stamped between its start and the current time, when the
\* read, parse and write of saveTransaction all complete, and none when one
\* of them throws; either way phone and webhook are left empty.
C2_OneAppendedUnlessStorageFails ==
  [][\A i \in 1..Len(calls) :
       Ended(i) =>
         LET id == calls[i].data.order_id IN
         /\ Appended(StoredList, id) = 0
         /\ Appended(StoredList', id) = IF SaveSetItem(i, FALSE) THEN 1 ELSE 0
         /\ Appended(StoredList', id) = 1 =>
              /\ StoredList'[1].order_id = id
              /\ calls[i].start <= StoredList'[1].timestamp
              /\ StoredList'[1].timestamp <= now'
         /\ phone' = <<>>
         /\ webhookUrl' = <<>>]_vars

C2_Witness ==
  /\ alert.title = "Success!"
  /\ calls = <<>>
  /\ Appended(StoredList, alert.order_id) = 1
  /\ StoredList[1].order_id = alert.order_id
  /\ StoredList[1].timestamp = 1
  /\ \E k \in 1..Len(requests) : requests[k].hasWebhook
  /\ phone = <<>>
  /\ webhookUrl = <<>>

\* C3: at most one order submission is in flight at any time, whatever the
\* sequence of presses of the send button.
C3_OneInFlight == Len(calls) <= 1

\* C10: no two outbound requests carry the same reference.
C10_UniqueReferences ==
  \A i, j \in 1..Len(requests) :
    i # j => requests[i].reference # requests[j].reference

\* C4: an outbound request is issued only while a credential is stored, and
\* it carries the stored value.
C4_RequestCarriesStoredCredential ==
  [][requests' # requests =>
       /\ Truthy(storage.api_key)
       /\ requests'[Len(requests')].api_key = storage.api_key.text]_vars

\* C5: a load of the History screen that reads the store without failure,
\* on mount or on refresh, leaves the stored log displayed, in stored order,
\* and the empty sequence when no log is stored.
C5_LoadYieldsStoredLog ==
  [][(HistoryMount(FALSE) \/ OnRefreshSettle(FALSE)) =>
       transactions' = StoredList]_vars

\* C7: clearing the credential leaves the stored log unchanged, and only
\* History clear and clear-all remove the log.
C7_ClearKeyKeepsLog ==
  [][/\ (\E f \in BOOLEAN : ClearApiKey(f)) =>
          storage'.transactions = storage.transactions
     /\ (storage.transactions # NoItem /\ storage'.transactions = NoItem) =>
          \/ \E f \in BOOLEAN : ClearHistory(f)
          \/ \E removed \in SUBSET StorageKeys : ClearAllData(removed)]_vars

C7_Witness ==
  /\ alert = InfoAlert("API key cleared")
  /\ storage.api_key = NoItem
  /\ Len(StoredList) >= 2

\* C6: an append over a stored value that is absent or is not a serialized
\* sequence writes back a log whose only entry is the new timestamped entry.
C6_AppendOverMissingOrMalformed ==
  [][\A i \in 1..Len(calls) :
       (Ended(i) /\ ~Parses(storage.transactions)) =>
         /\ Parses(storage'.transactions)
         /\ Len(StoredList') = 1
         /\ StoredList'[1].order_id = calls[i].data.order_id
         /\ StoredList'[1].timestamp \in calls[i].start..now]_vars

\* A response the claim counts as a success.
IsSuccess(r) ==
  r.resolved /\ Ok(r.status) /\ r.body.kind = "object"
    /\ r.body.status = "success"

\* The messages C8 allows for a response that is not a success.  Where the
\* claim can be read either way (a null body, an empty message field) both
\* readings are allowed.
Claimed(r) ==
  IF ~r.resolved THEN {MsgNetwork}
  ELSE IF r.status \in TableStatuses THEN {ERROR_MESSAGES(r.status)}
  ELSE IF r.body.kind = "unparsable" THEN {MsgNetwork}
  ELSE IF r.body.kind = "null" THEN {MsgNetwork, MsgUnknown}
  ELSE IF r.body.hasMessage /\ r.body.message # "" THEN {r.body.message}
  ELSE {MsgUnknown}

\* C8: for a received response that is not a success, the message reported
\* is the table's string when the HTTP status is in the table, whatever the
\* body; otherwise the body's message, otherwise the unknown-error string;
\* the connectivity error only for a transport failure or unparsable body.
C8_MessageByStatus ==
  [][\A i \in 1..Len(calls), r \in AllResponses(orders + 1) :
       (FetchSettle(i, r) /\ ~IsSuccess(r)) =>
         /\ alert'.title = "Error"
         /\ alert'.message \in Claimed(r)]_vars

\* The validator as C9 states it.
ClaimedPass(key, ph, url) ==
  /\ Trim(key) # <<>>
  /\ Len(StripWhitespace(ph)) = 10
  /\ \A k \in 1..Len(StripWhitespace(ph)) : StripWhitespace(ph)[k] \in Digits
  /\ (url = <<>> \/ StartsWith(url, Https))

ClaimedReason(key, ph, url) ==
  IF Trim(key) = <<>> THEN MsgNoApiKey
  ELSE IF Trim(ph) = <<>> THEN MsgNoPhone
  ELSE IF ~(/\ Len(StripWhitespace(ph)) = 10
            /\ \A k \in 1..Len(StripWhitespace(ph)) :
                 StripWhitespace(ph)[k] \in Digits)
  THEN MsgBadPhone
  ELSE MsgBadWebhook

\* C9: a press of the send button issues a request iff the credential is
\* non-empty after trimming, the phone stripped of whitespace is exactly 10
\* digits and the webhook is empty or starts with https://; otherwise it
\* alerts the first failing rule's reason and neither issues a request nor
\* writes the store.
C9_ValidateForm ==
  [][PressSend(MaxSends) =>
       IF ClaimedPass(apiKey, phone, webhookUrl)
       THEN /\ Len(requests') = Len(requests) + 1
            /\ alert' = alert
       ELSE /\ alert' = ErrorAlert(ClaimedReason(apiKey, phone, webhookUrl))
            /\ requests' = requests
            /\ calls' = calls
            /\ storage' = storage]_vars

C9_Witness ==
  /\ Len(requests) = 1
  /\ phone = PhoneSpaced
  /\ requests[1].phone = Phone10
  /\ webhookUrl = HttpsX
  /\ alert = ErrorAlert(MsgNetwork)

\* C11: a failed getItem or setItem during the append leaves the stored log
\* as it was and does not abort the submission: the order is reported as a
\* success, phone and webhook are reset, loading is cleared and the
\* invocation ends without a connectivity error.
C11_AppendFailureIsNoOp ==
  [][\A i \in 1..Len(calls) :
       (SaveGetItem(i, TRUE) \/ SaveSetItem(i, TRUE)) =>
         /\ storage' = storage
         /\ alert' = SuccessAlert(MsgSent, calls[i].data.order_id)
         /\ alert'.message # MsgNetwork
         /\ phone' = <<>>
         /\ webhookUrl' = <<>>
         /\ loading' = FALSE
         /\ calls' = RemoveAt(calls, i)]_vars

C11_Witness ==
  /\ alert.title = "Success!"
  /\ alert.order_id = orders
  /\ Appended(StoredList, alert.order_id) = 0
  /\ Len(StoredList) = 1
  /\ calls = <<>>
  /\ ~loading
  /\ phone = <<>>
  /\ webhookUrl = <<>>

\* The entry an append that is about to write puts at the head of the log.
Written(i) == JSONparse(calls[i].item)[1]

\* C12: an append does not race with a clear of the log: the log its write
\* stores is the log stored just before the write with the new entry at
\* the head, as if read and write were one step, so entries removed by a
\* clearHistory or clearAllData that completed after the append's read do
\* not come back.
C12_AppendSerializesWithClear ==
  [][\A i \in 1..Len(calls) :
       SaveSetItem(i, FALSE) =>
         StoredList' = Slice(Unshift(StoredList, Written(i)), MAX_TRANSACTIONS)]_vars

\* The store holds no credential, or one that is non-empty and carries no
\* surrounding whitespace.
StoredCredentialValid ==
  \/ storage.api_key = NoItem
  \/ /\ storage.api_key.kind = "text"
     /\ storage.api_key.text # <<>>
     /\ Head(storage.api_key.text) \notin Whitespace
     /\ storage.api_key.text[Len(storage.api_key.text)] \notin Whitespace

SizeOffered ==
  /\ selectedSize \in Offered(network)
  /\ \A k \in 1..Len(requests) :
       \E n \in Networks :
         /\ requests[k].network = ToLowerCase(n)
         /\ requests[k].size_mb \in Offered(n)

\* C14: after any sequence of network changes and size selections the
\* selected size is one of the sizes offered for the selected network, a
\* network change resets it to that network's first size, and every
\* outbound request carries a size and network pair of the table.
C14_SizeOfferedForNetwork ==
  /\ []SizeOffered
  /\ [][\A n \in Networks :
          HandleNetworkChange(n) =>
            network' = n /\ selectedSize' = BUNDLE_SIZES[n][1]]_vars

C14_Witness ==
  /\ Len(requests) = 1
  /\ requests[1].network = "telecel"
  /\ requests[1].size_mb = 50000
  /\ network = "MTN"
  /\ selectedSize = 1024

\* C15: every step that ends a submission, on whatever outcome, clears the
\* loading flag; the flag is set only while a submission is in flight; a
\* set flag is eventually cleared and a disabled send button is eventually
\* re-enabled, provided the HTTP call and the storage calls settle.
C15_LoadingEventuallyCleared ==
  /\ [][Len(calls') < Len(calls) => ~loading']_vars
  /\ [](loading => calls # <<>>)
  /\ loading ~> ~loading
  /\ disabled ~> ~disabled

C15_Witness ==
  /\ ~loading
  /\ ~disabled
  /\ calls = <<>>
  /\ Len(requests) = 2
  /\ alert.title = "Success!"
  /\ Appended(StoredList, alert.order_id) = 0
=============================================================================
